---- MODULE Spec2Model ----
(***************************************************************************)
(* A model of the frame-layer viewer of src/platform/qt/FrameView.cpp:     *)
(* the layer queue and its toggle/select state (UI thread), the replay     *)
(* session (m_vl), the rotating per-frame video logs (emulation thread's   *)
(* frame callback), and the teardown of the view.                          *)
(***************************************************************************)
EXTENDS Integers, Sequences, FiniteSets, TLC

(***************************************************************************)
(* Program constants.                                                      *)
(***************************************************************************)
NumPriorities == 4      \* for (priority = 0; priority < 4; ...)
NumObj == 128           \* for (sprite = 0; sprite < 128; ...)
NumBg == 4              \* for (bg = 0; bg < 4; ...)
ScrollMask == 512       \* io[...] & 0x1FF, as a modulus

(***************************************************************************)
(* Bounds of the model.                                                    *)
(***************************************************************************)
MaxObj == 1             \* OAM entries a hardware snapshot may enable
MaxBg == 1              \* background planes a hardware snapshot may enable
MaxPrio == 2            \* priority tiers a hardware snapshot uses
MaxObjRot == 1          \* the same three, for the rotation specification
MaxBgRot == 0
MaxPrioRot == 1
MaxFrames == 2          \* frame callbacks the emulation thread runs
MaxFramesRot == 3       \* the same, for the rotation specification
MaxGlow == 1            \* cap of the glow animation frame counter
HitMaxW == 4            \* widest repeating layer of the hit-test specification
HitMaxH == 2            \* its greatest height
HitMaxOfsX == 7         \* its offsets lie in -HitMaxOfsX..0 by -HitMaxOfsY..0
HitMaxOfsY == 3
OrdMaxObj == 2          \* the three snapshot bounds of the ordering specification
OrdMaxBg == 2
OrdMaxPrio == 2

(***************************************************************************)
(* LayerId (FrameView.h): a kind and an index; index -1 when absent.       *)
(***************************************************************************)
LayerId(t, i) == [type |-> t, index |-> i]
NoneId == LayerId("NONE", -1)
BackdropId == LayerId("BACKDROP", -1)
SpriteId(i) == LayerId("SPRITE", i)
BackgroundId(i) == LayerId("BACKGROUND", i)

RECURSIVE Concat(_)
Concat(ss) == IF ss = <<>> THEN <<>> ELSE Head(ss) \o Concat(Tail(ss))

(***************************************************************************)
(* Hardware snapshots: what a decomposition pass reads from the live core  *)
(* while it is interrupted.  obj[s] is the priority of OAM entry s, or -1  *)
(* when lookupObj reports it not enabled; bg[b] is the priority in BGnCNT  *)
(* of plane b, or -1 when its DISPCNT enable bit is clear; mode is the     *)
(* DISPCNT video mode.  Entries outside the domains are not enabled.       *)
(***************************************************************************)
HwStates(nObj, nBg, nPrio) ==
    [obj : [0..(nObj - 1) -> -1..(nPrio - 1)],
     bg : [0..(nBg - 1) -> -1..(nPrio - 1)],
     mode : {0}]

ObjEnabled(hw, s) == s \in DOMAIN hw.obj /\ hw.obj[s] >= 0
ObjPriority(hw, s) == hw.obj[s]
BgEnabled(hw, b) == b \in DOMAIN hw.bg /\ hw.bg[b] >= 0
BgPriority(hw, b) == hw.bg[b]

\* The pixel data of the snapshots: sprite s is one opaque pixel at (s, 0);
\* plane b is a 2x1 map whose pixel (0, 0) is opaque and (1, 0) transparent,
\* scrolled by (b, 0).
ObjX(hw, s) == s
ObjY(hw, s) == 0
BgHofs(hw, b) == b
BgVofs(hw, b) == 0
ObjImage(hw, s) == [w |-> 1, h |-> 1, alpha |-> FALSE, opaque |-> {<<0, 0>>}]
BgImage(hw, b) == [w |-> 2, h |-> 1, alpha |-> TRUE, opaque |-> {<<0, 0>>}]

\* The points of the views a mouse event may carry.
Points == {<<x, 0>> : x \in 0..2}

Rect(w, h) == {<<x, y>> : x \in 0..(w - 1), y \in 0..(h - 1)}

\* if (image.hasAlpha()) mask = QRegion(image.mask()); else mask = full rectangle
BuildMask(img) == IF img.alpha THEN img.opaque ELSE Rect(img.w, img.h)

MkLayer(id, en, img, mask, loc, rep) ==
    [id |-> id, enabled |-> en, w |-> img.w, h |-> img.h,
     mask |-> mask, location |-> loc, repeats |-> rep]

SpriteLayer(hw, s, disabled) ==
    MkLayer(SpriteId(s), SpriteId(s) \notin disabled, ObjImage(hw, s),
            BuildMask(ObjImage(hw, s)), <<ObjX(hw, s), ObjY(hw, s)>>, FALSE)

BgOffset(hw, b) ==
    IF hw.mode = 0
    THEN <<-(BgHofs(hw, b) % ScrollMask), -(BgVofs(hw, b) % ScrollMask)>>
    ELSE <<0, 0>>

\* A plane appended enabled whatever m_disabled holds.
BackgroundLayerEnabled(hw, b, disabled) ==
    MkLayer(BackgroundId(b), TRUE, BgImage(hw, b),
            BuildMask(BgImage(hw, b)), BgOffset(hw, b), TRUE)

BackgroundLayer(hw, b, disabled) ==
    MkLayer(BackgroundId(b), BackgroundId(b) \notin disabled, BgImage(hw, b),
            BuildMask(BgImage(hw, b)), BgOffset(hw, b), TRUE)

\* The backdrop is appended with an empty mask ({}), and no mask is built for it.
BackdropLayer(disabled) ==
    MkLayer(BackdropId, BackdropId \notin disabled,
            [w |-> 240, h |-> 160], {}, <<0, 0>>, FALSE)

\* The members of a set of indices in descending order: a loop that counts
\* down.
RECURSIVE Descending(_)
Descending(S) ==
    IF S = {} THEN <<>>
    ELSE LET m == CHOOSE x \in S : \A y \in S : x >= y
         IN  <<m>> \o Descending(S \ {m})

\* The members of a set of indices in ascending order: the order in which a
\* for loop from 0 upward meets them.
RECURSIVE Ascending(_)
Ascending(S) ==
    IF S = {} THEN <<>>
    ELSE LET m == CHOOSE x \in S : \A y \in S : x <= y
         IN  <<m>> \o Ascending(S \ {m})

\* A sprite scan that does not compare the priority with the tier.
SpriteMatchesAnyTier(hw, priority, s) == ObjEnabled(hw, s)

SpriteMatches(hw, priority, s) == ObjEnabled(hw, s) /\ ObjPriority(hw, s) = priority

\* Lines 158-182: the sprites 0..127 of one tier, by ascending index.
SpritesOfTier(hw, priority, disabled) ==
    LET hit == Ascending({s \in DOMAIN hw.obj : s < NumObj /\ SpriteMatches(hw, priority, s)})
    IN  [k \in 1..Len(hit) |-> SpriteLayer(hw, hit[k], disabled)]

BgMatches(hw, priority, b) == BgEnabled(hw, b) /\ BgPriority(hw, b) = priority

\* Lines 184-208: the planes 0..3 of one tier, by ascending index.
BackgroundsOfTier(hw, priority, disabled) ==
    LET hit == Ascending({b \in DOMAIN hw.bg : b < NumBg /\ BgMatches(hw, priority, b)})
    IN  [k \in 1..Len(hit) |-> BackgroundLayer(hw, hit[k], disabled)]

\* A pass that appends the backdrop before the tiers.
BuildQueueBackdropFirst(hw, disabled) ==
    <<BackdropLayer(disabled)>>
    \o Concat([p \in 1..NumPriorities |->
              SpritesOfTier(hw, p - 1, disabled) \o BackgroundsOfTier(hw, p - 1, disabled)])

\* The queue updateTilesGBA builds: per tier the sprites, then the planes;
\* the backdrop last.
BuildQueueGBA(hw, disabled) ==
    Concat([p \in 1..NumPriorities |->
              SpritesOfTier(hw, p - 1, disabled) \o BackgroundsOfTier(hw, p - 1, disabled)])
    \o <<BackdropLayer(disabled)>>

\* updateTilesGB: m_queue.clear() and nothing appended.
BuildQueueGB == <<>>

(***************************************************************************)
(* lookupLayer: the first layer of the queue that is enabled, not in       *)
(* m_disabled, and whose (wrap-expanded) mask contains the point.  The     *)
(* result is the queue position (1-based), 0 when lookupLayer returns      *)
(* false.                                                                  *)
(***************************************************************************)
\* A remainder that is never negative.
FmodNonNegative(a, b) == a % b

\* std::fmod on whole numbers: the remainder has the sign of the dividend.
Fmod(a, b) == IF a >= 0 THEN a % b ELSE -((-a) % b)

Translated(mask, dx, dy) == {<<p[1] + dx, p[2] + dy>> : p \in mask}

LayerRegion(layer) ==
    LET x0 == layer.location[1]
        y0 == layer.location[2]
        x == IF x0 + layer.w < 0 THEN Fmod(x0, layer.w) ELSE x0
        y == IF y0 + layer.h < 0 THEN Fmod(y0, layer.h) ELSE y0
    IN  IF layer.repeats
        THEN Translated(layer.mask, x, y)
             \cup Translated(layer.mask, x + layer.w, y)
             \cup Translated(layer.mask, x, y + layer.h)
             \cup Translated(layer.mask, x + layer.w, y + layer.h)
        ELSE Translated(layer.mask, x0, y0)

LayerHit(layer, disabled, coord) ==
    /\ layer.enabled
    /\ layer.id \notin disabled
    /\ coord \in LayerRegion(layer)

\* A lookup that goes on after a hit and returns the last layer it hits.
lookupLayerLastHit(queue, disabled, coord) ==
    LET hits == {i \in 1..Len(queue) : LayerHit(queue[i], disabled, coord)}
    IN  IF hits = {} THEN 0
        ELSE CHOOSE i \in hits : \A j \in hits : i >= j

\* Lines 82-109: the loop over m_queue from position i on: a layer that is
\* not enabled or is in m_disabled is skipped (continue), the first layer
\* whose region contains the point is returned.
RECURSIVE LookupFrom(_, _, _, _)
LookupFrom(queue, disabled, coord, i) ==
    IF i > Len(queue) THEN 0
    ELSE IF ~queue[i].enabled \/ queue[i].id \in disabled
         THEN LookupFrom(queue, disabled, coord, i + 1)
         ELSE IF coord \in LayerRegion(queue[i])
              THEN i
              ELSE LookupFrom(queue, disabled, coord, i + 1)

lookupLayer(queue, disabled, coord) == LookupFrom(queue, disabled, coord, 1)

(***************************************************************************)
(* injectGBA / injectGB: the state handed to the replay renderer.          *)
(***************************************************************************)
\* An injection that leaves the highlight flags of the earlier run in place.
ClearedRenderKeepsFlags(r) ==
    [r EXCEPT !.oamIssued = {}]

ClearedRender(r) ==
    [r EXCEPT !.hlBg = {}, !.hlObj = {}, !.oamIssued = {}]

\* An injection that marks every sprite of the queue inactive, enabled or not.
InjectLayerAllSprites(r, layer, active) ==
    IF layer.id.type = "SPRITE"
    THEN [r EXCEPT
            !.oamIssued = @ \cup {layer.id.index},
            !.hlObj = IF layer.id = active THEN @ \cup {layer.id.index} ELSE @]
    ELSE IF layer.id.type = "BACKGROUND"
    THEN [r EXCEPT
            !.bgEnable = [@ EXCEPT ![layer.id.index] = layer.enabled],
            !.hlBg = IF layer.id = active THEN @ \cup {layer.id.index} ELSE @]
    ELSE r

InjectLayer(r, layer, active) ==
    IF layer.id.type = "SPRITE"
    THEN [r EXCEPT
            !.oamIssued = IF ~layer.enabled THEN @ \cup {layer.id.index} ELSE @,
            !.hlObj = IF layer.id = active THEN @ \cup {layer.id.index} ELSE @]
    ELSE IF layer.id.type = "BACKGROUND"
    THEN [r EXCEPT
            !.bgEnable = [@ EXCEPT ![layer.id.index] = layer.enabled],
            !.hlBg = IF layer.id = active THEN @ \cup {layer.id.index} ELSE @]
    ELSE r

RECURSIVE InjectLayers(_, _, _)
InjectLayers(r, queue, active) ==
    IF queue = <<>> THEN r
    ELSE InjectLayers(InjectLayer(r, Head(queue), active), Tail(queue), active)

injectGBA(r, queue, active) == InjectLayers(ClearedRender(r), queue, active)

\* injectGB iterates the queue and does nothing.
injectGB(r, queue) == r

\* switch (platform) { case GBA: injectGBA(); case GB: injectGB(); }: no break
\* after the first case.
Inject(plat, r, queue, active) ==
    IF plat = "GBA" THEN injectGB(injectGBA(r, queue, active), queue)
    ELSE injectGB(r, queue)

\* The renderer state of a session after init.
FreshRender ==
    [bgEnable |-> [b \in 0..(NumBg - 1) |-> TRUE],
     oamIssued |-> {}, hlObj |-> {}, hlBg |-> {}]

(***************************************************************************)
(* The state.                                                              *)
(***************************************************************************)
VARIABLES
    platform,        \* m_controller->platform(): "GBA" or "GB"
    freeze,          \* m_ui.freeze is checked
    m_queue,         \* the layer queue
    m_disabled,      \* the set of disabled LayerIds
    m_active,        \* the active LayerId, NoneId when none
    m_glowFrame,     \* the glow animation frame counter
    glowTimer,       \* m_glowTimer.isActive()
    listItems,       \* the items of m_ui.queue
    listCurrent,     \* the row of its current item, 0 when none
    m_vl,            \* the replay session (an index of sessions), 0 when null
    sessions,        \* every session ever initialised
    vlPhase,         \* the last call made on the session m_vl
    vlRender,        \* the renderer state of the session m_vl
    m_framebuffer,   \* "null", "blank" (allocated by newVl) or "drawn"
    bufs,            \* every VFile ever allocated by VFileMemChunk
    m_currentFrame,  \* an index of bufs, 0 when null
    m_nextFrame,     \* an index of bufs, 0 when null
    recording,       \* the buffer the live session logs into, 0 when none
    pendingNewVl,    \* queued invocations of newVl
    mutex,           \* m_mutex: its owner and its recursion depth
    uipc,            \* where the UI thread is: "idle", "pass" or "replay"
    curOp,           \* the handler whose replay is in flight, else "none"
    runRead,         \* what the replay in flight was reset on
    emupc,           \* where the emulation thread is
    frames,          \* frame callbacks run so far
    cbRegistered,    \* callbacks of this view held by the controller
    alive,           \* *m_callbackLocker
    destroyed,       \* ~FrameView has run
    lateUse          \* what a callback did on the view after ~FrameView

uiVars == <<platform, freeze, m_queue, m_disabled, m_active, m_glowFrame,
            glowTimer, listItems, listCurrent>>
vlVars == <<m_vl, sessions, vlPhase, vlRender, m_framebuffer>>
logVars == <<bufs, m_currentFrame, m_nextFrame, recording, pendingNewVl>>
uiCtl == <<uipc, curOp, runRead>>
emuCtl == <<emupc, frames, cbRegistered>>
endVars == <<alive, destroyed, lateUse>>
vars == <<uiVars, vlVars, logVars, uiCtl, emuCtl, endVars, mutex>>

NoRead == [sess |-> 0]
FreeMutex == [owner |-> "none", depth |-> 0]

\* The state after FrameView::FrameView: one frame callback is registered.
Init ==
    /\ platform \in {"GBA", "GB"}
    /\ freeze = FALSE
    /\ m_queue = <<>>
    /\ m_disabled = {}
    /\ m_active = NoneId
    /\ m_glowFrame = 0
    /\ glowTimer = FALSE
    /\ listItems = <<>>
    /\ listCurrent = 0
    /\ m_vl = 0
    /\ sessions = <<>>
    /\ vlPhase = "none"
    /\ vlRender = FreshRender
    /\ m_framebuffer = "null"
    /\ bufs = <<>>
    /\ m_currentFrame = 0
    /\ m_nextFrame = 0
    /\ recording = 0
    /\ pendingNewVl = 0
    /\ mutex = FreeMutex
    /\ uipc = "idle"
    /\ curOp = "none"
    /\ runRead = NoRead
    /\ emupc = "run"
    /\ frames = 0
    /\ cbRegistered = 1
    /\ alive = TRUE
    /\ destroyed = FALSE
    /\ lateUse = {}

(***************************************************************************)
(* m_mutex.  QMutexLocker blocks until the mutex is free or already held   *)
(* by the locking thread (updateTilesGBA calls invalidateQueue with the    *)
(* mutex held).                                                            *)
(***************************************************************************)
\* A mutex its owner cannot lock again.
CanLockNotRecursive(t) == mutex.owner = "none"

CanLock(t) == mutex.owner \in {"none", t}
Locked(t, n) == [owner |-> t, depth |-> n]

UiIdle == uipc = "idle" /\ ~destroyed

(***************************************************************************)
(* invalidateQueue.                                                        *)
(***************************************************************************)
\* Lines 305-323: the list is rebuilt from the queue, signals blocked.
RebuiltList(queue, active) ==
    [i \in 1..Len(queue) |->
        [text |-> queue[i].id, checked |-> queue[i].enabled,
         data |-> i - 1, selected |-> queue[i].id = active]]

\* The current row after the rows past the queue's end are taken out.
RebuiltCurrent(queue, cur) == IF cur > Len(queue) THEN Len(queue) ELSE cur

\* What a replay reads: the session, its log, and the rotating buffers.
ReadNow ==
    [sess |-> m_vl, log |-> sessions[m_vl].log, data |-> bufs[sessions[m_vl].log],
     nbufs |-> Len(bufs), cur |-> m_currentFrame, next |-> m_nextFrame]

\* An invalidateQueue that does not test m_vl before it resets and injects.
InvalidateQueueEnterNoSessionTest(op, queue, active, items, cur, held) ==
    /\ CanLock("ui")
    /\ vlPhase' = "injected"
    /\ vlRender' = Inject(platform, vlRender, queue, active)
    /\ runRead' = IF m_vl # 0 THEN ReadNow ELSE NoRead
    /\ uipc' = "replay"
    /\ curOp' = op
    /\ mutex' = Locked("ui", held + 1)
    /\ listItems' = items
    /\ listCurrent' = cur
    /\ UNCHANGED <<m_vl, sessions, m_framebuffer>>

\* Lines 284-301: after a handler has set the queue and the active layer,
\* invalidateQueue takes the mutex (held times already by its caller) and,
\* with a session, resets it and injects.  Without a session the rest of
\* invalidateQueue follows at once and the handler returns, all lockers
\* released.
InvalidateQueueEnter(op, queue, active, items, cur, held) ==
    /\ CanLock("ui")
    /\ IF m_vl # 0
       THEN /\ vlPhase' = "injected"
            /\ vlRender' = Inject(platform, vlRender, queue, active)
            /\ runRead' = ReadNow
            /\ uipc' = "replay"
            /\ curOp' = op
            /\ mutex' = Locked("ui", held + 1)
            /\ listItems' = items
            /\ listCurrent' = cur
       ELSE /\ listItems' = RebuiltList(queue, active)
            /\ listCurrent' = RebuiltCurrent(queue, cur)
            /\ uipc' = "idle"
            /\ curOp' = "none"
            /\ mutex' = FreeMutex
            /\ UNCHANGED <<vlPhase, vlRender, runRead>>
    /\ UNCHANGED <<m_vl, sessions, m_framebuffer>>

\* Lines 302-335: runFrame, the list rebuild, the composite; the mutex is
\* released on return (and by updateTilesGBA's locker after it).
InvalidateQueueRun ==
    /\ uipc = "replay"
    /\ vlPhase' = "ran"
    /\ m_framebuffer' = "drawn"
    /\ listItems' = RebuiltList(m_queue, m_active)
    /\ listCurrent' = RebuiltCurrent(m_queue, listCurrent)
    /\ uipc' = "idle"
    /\ curOp' = "none"
    /\ runRead' = NoRead
    /\ mutex' = FreeMutex
    /\ UNCHANGED <<platform, freeze, m_queue, m_disabled, m_active, m_glowFrame, glowTimer>>
    /\ UNCHANGED <<m_vl, sessions, vlRender, logVars, emuCtl, endVars>>

(***************************************************************************)
(* The handlers of the UI thread.                                          *)
(***************************************************************************)
\* m_glowTimer's timeout: ++m_glowFrame; invalidateQueue().
GlowTimeout ==
    /\ UiIdle
    /\ glowTimer
    /\ m_glowFrame < MaxGlow
    /\ m_glowFrame' = m_glowFrame + 1
    /\ InvalidateQueueEnter("glowTimeout", m_queue, m_active, listItems, listCurrent, 0)
    /\ UNCHANGED <<platform, freeze, m_queue, m_disabled, m_active, glowTimer>>
    /\ UNCHANGED <<logVars, emuCtl, endVars>>

\* The queue and m_disabled after the itemChanged handler ran for a layer.
ToggledQueue(queue, idx, checked) == [queue EXCEPT ![idx].enabled = checked]
\* An itemChanged handler that records a disabled id and never removes one.
ToggledDisabledNeverRemoves(disabled, id, checked) == disabled \cup {id}

ToggledDisabled(disabled, id, checked) ==
    IF checked THEN disabled \ {id} ELSE disabled \cup {id}

\* An itemChanged handler that does not call invalidateQueue.
ItemChangedNoReplay(i) ==
    /\ UiIdle
    /\ i \in 1..Len(listItems)
    /\ LET checked == ~listItems[i].checked
           idx == listItems[i].data + 1
       IN  /\ m_queue' = ToggledQueue(m_queue, idx, checked)
           /\ m_disabled' = ToggledDisabled(m_disabled, m_queue[idx].id, checked)
           /\ listItems' = [listItems EXCEPT ![i].checked = checked]
    /\ UNCHANGED <<platform, freeze, m_active, m_glowFrame, glowTimer, listCurrent>>
    /\ UNCHANGED <<vlVars, logVars, uiCtl, emuCtl, endVars, mutex>>

\* m_ui.queue's itemChanged: the operator flips the check box of row i.
ItemChanged(i) ==
    /\ UiIdle
    /\ i \in 1..Len(listItems)
    /\ LET checked == ~listItems[i].checked
           idx == listItems[i].data + 1
           queue == ToggledQueue(m_queue, idx, checked)
       IN  /\ m_queue' = queue
           /\ m_disabled' = ToggledDisabled(m_disabled, m_queue[idx].id, checked)
           /\ InvalidateQueueEnter("itemChanged", queue, m_active,
                                   [listItems EXCEPT ![i].checked = checked], listCurrent, 0)
    /\ UNCHANGED <<platform, freeze, m_active, m_glowFrame, glowTimer>>
    /\ UNCHANGED <<logVars, emuCtl, endVars>>

\* m_active after the currentItemChanged handler ran for row i (0: no item).
CurrentItemActive(queue, items, i) ==
    IF i # 0 THEN queue[items[i].data + 1].id ELSE NoneId

\* m_ui.queue's currentItemChanged: the current row becomes i.
CurrentItemChanged(i) ==
    /\ UiIdle
    /\ i \in 0..Len(listItems)
    /\ i # listCurrent
    /\ m_active' = CurrentItemActive(m_queue, listItems, i)
    /\ InvalidateQueueEnter("currentItemChanged", m_queue,
                            CurrentItemActive(m_queue, listItems, i), listItems, i, 0)
    /\ UNCHANGED <<platform, freeze, m_queue, m_disabled, m_glowFrame, glowTimer>>
    /\ UNCHANGED <<logVars, emuCtl, endVars>>

\* A selectLayer that does not toggle an active layer off.
SelectedActiveNoToggle(queue, active, k) == queue[k].id

\* m_active after selectLayer found the layer at queue position k.
SelectedActive(queue, active, k) ==
    IF queue[k].id = active THEN NoneId ELSE queue[k].id

\* eventFilter, MouseButtonPress: selectLayer(pos).
SelectLayer(coord) ==
    /\ UiIdle
    /\ LET k == lookupLayer(m_queue, m_disabled, coord)
       IN  IF k = 0
           THEN UNCHANGED <<m_active, m_glowFrame>>
           ELSE /\ m_active' = SelectedActive(m_queue, m_active, k)
                /\ m_glowFrame' = 0
    /\ UNCHANGED <<platform, freeze, m_queue, m_disabled, glowTimer, listItems, listCurrent>>
    /\ UNCHANGED <<vlVars, logVars, uiCtl, emuCtl, endVars, mutex>>

\* A disableLayer that only records the id and leaves the layer's flag.
DisabledQueueKeepsFlag(queue, k) == queue

\* The queue after disableLayer found the layer at queue position k.
DisabledQueue(queue, k) == [queue EXCEPT ![k].enabled = FALSE]

\* eventFilter, MouseButtonDblClick: disableLayer(pos).
DisableLayer(coord) ==
    /\ UiIdle
    /\ LET k == lookupLayer(m_queue, m_disabled, coord)
       IN  IF k = 0
           THEN UNCHANGED <<m_queue, m_disabled>>
           ELSE /\ m_queue' = DisabledQueue(m_queue, k)
                /\ m_disabled' = m_disabled \cup {m_queue[k].id}
    /\ UNCHANGED <<platform, freeze, m_active, m_glowFrame, glowTimer, listItems, listCurrent>>
    /\ UNCHANGED <<vlVars, logVars, uiCtl, emuCtl, endVars, mutex>>

\* The operator checks or unchecks m_ui.freeze.
ToggleFreeze ==
    /\ UiIdle
    /\ freeze' = ~freeze
    /\ UNCHANGED <<platform, m_queue, m_disabled, m_active, m_glowFrame, glowTimer,
                   listItems, listCurrent>>
    /\ UNCHANGED <<vlVars, logVars, uiCtl, emuCtl, endVars, mutex>>

(***************************************************************************)
(* The decomposition passes.                                               *)
(***************************************************************************)
\* The frame callback holds its interrupter from line 404 to its return.
CallbackInterrupting == emupc \in {"refreshVl", "register"}

\* An interrupter that waits until no other interrupter is held.
InterruptWaitsForCallback == ~CallbackInterrupting

\* CoreController::Interrupter on the UI thread (lines 143, 272): the pause
\* of the live core is short and bounded.  It is granted when the
\* emulation thread stops between two callbacks, and at once when the
\* frame callback has paused the core itself (pauses nest).
InterruptReturns == TRUE

\* updateTilesGBA, lines 137-141, freeze unchecked: m_mutex is taken and
\* the queue cleared; the interrupter is next.
UpdateTilesLock ==
    /\ UiIdle
    /\ platform = "GBA"
    /\ ~freeze
    /\ CanLock("ui")
    /\ mutex' = Locked("ui", 1)
    /\ m_queue' = <<>>
    /\ uipc' = "pass"
    /\ curOp' = "updateTiles"
    /\ UNCHANGED <<platform, freeze, m_disabled, m_active, m_glowFrame, glowTimer,
                   listItems, listCurrent>>
    /\ UNCHANGED <<vlVars, logVars, runRead, emuCtl, endVars>>

\* A pass that clears m_active when its layer is not in the rebuilt queue.
UpdateTilesGBAClearsActive(hw) ==
    LET queue == BuildQueueGBA(hw, m_disabled)
        active == IF \E k \in 1..Len(queue) : queue[k].id = m_active
                  THEN m_active ELSE NoneId
    IN  /\ uipc = "pass"
        /\ InterruptReturns
        /\ CanLock("ui")
        /\ m_queue' = queue
        /\ m_active' = active
        /\ InvalidateQueueEnter("updateTiles", queue, active, listItems, listCurrent, 1)
        /\ UNCHANGED <<platform, freeze, m_disabled, m_glowFrame, glowTimer>>
        /\ UNCHANGED <<logVars, emuCtl, endVars>>

\* updateTilesGBA from line 143: once the interrupter has the live core
\* paused the queue is rebuilt from the hardware state hw, the interrupter
\* released, and invalidateQueue runs with the mutex still held.
UpdateTilesGBA(hw) ==
    /\ uipc = "pass"
    /\ InterruptReturns
    /\ CanLock("ui")
    /\ m_queue' = BuildQueueGBA(hw, m_disabled)
    /\ InvalidateQueueEnter("updateTiles", BuildQueueGBA(hw, m_disabled), m_active,
                            listItems, listCurrent, 1)
    /\ UNCHANGED <<platform, freeze, m_disabled, m_active, m_glowFrame, glowTimer>>
    /\ UNCHANGED <<logVars, emuCtl, endVars>>

\* updateTilesGB, freeze unchecked: the queue is cleared; m_mutex is not taken.
UpdateTilesGB ==
    /\ UiIdle
    /\ platform = "GB"
    /\ ~freeze
    /\ InterruptReturns
    /\ m_queue' = BuildQueueGB
    /\ InvalidateQueueEnter("updateTiles", BuildQueueGB, m_active, listItems, listCurrent, 0)
    /\ UNCHANGED <<platform, freeze, m_disabled, m_active, m_glowFrame, glowTimer>>
    /\ UNCHANGED <<logVars, emuCtl, endVars>>

\* Either pass with freeze checked returns at once.
UpdateTilesFrozen ==
    /\ UiIdle
    /\ freeze
    /\ UNCHANGED vars

(***************************************************************************)
(* The replay session: newVl and ~FrameView.                               *)
(***************************************************************************)
Deinit(sess, vl) ==
    IF vl = 0 THEN sess
    ELSE [sess EXCEPT ![vl].st = "dead", ![vl].deinits = @ + 1]

\* A newVl that replaces the session without deinitialising the previous one.
NewVlSessionsNoDeinit(sess, vl, log) ==
    Append(sess, [st |-> "live", log |-> log, deinits |-> 0])

\* Lines 386-391: the previous session is deinitialised, then the core found
\* for m_currentFrame is initialised and loads it.
NewVlSessions(sess, vl, log) ==
    Append(Deinit(sess, vl), [st |-> "live", log |-> log, deinits |-> 0])

\* The buffer newVl loads into the new session.
NewVlLog == m_currentFrame

\* newVl, invoked through the UI thread's event queue.
NewVl ==
    /\ UiIdle
    /\ pendingNewVl > 0
    /\ CanLock("ui")
    /\ pendingNewVl' = pendingNewVl - 1
    /\ glowTimer' = TRUE
    /\ sessions' = NewVlSessions(sessions, m_vl, NewVlLog)
    /\ m_vl' = Len(sessions) + 1
    /\ vlPhase' = "reset"
    /\ vlRender' = FreshRender
    /\ m_framebuffer' = "blank"
    /\ UNCHANGED <<platform, freeze, m_queue, m_disabled, m_active, m_glowFrame,
                   listItems, listCurrent>>
    /\ UNCHANGED <<bufs, m_currentFrame, m_nextFrame, recording>>
    /\ UNCHANGED <<uiCtl, emuCtl, endVars, mutex>>

\* ~FrameView: under m_mutex the still-alive flag is cleared and the session
\* deinitialised; the QObject's queued invocations and timer go with it.
Destructor ==
    /\ UiIdle
    /\ CanLock("ui")
    /\ alive' = FALSE
    /\ sessions' = Deinit(sessions, m_vl)
    /\ destroyed' = TRUE
    /\ pendingNewVl' = 0
    /\ glowTimer' = FALSE
    /\ UNCHANGED <<platform, freeze, m_queue, m_disabled, m_active, m_glowFrame,
                   listItems, listCurrent>>
    /\ UNCHANGED <<m_vl, vlPhase, vlRender, m_framebuffer, bufs, m_currentFrame,
                   m_nextFrame, recording>>
    /\ UNCHANGED <<uiCtl, emuCtl, lateUse, mutex>>

(***************************************************************************)
(* The emulation thread: frameCallback and refreshVl.                      *)
(***************************************************************************)
\* A callback that goes on whatever the flag says.
PassedCheckAlways(flag) == TRUE

\* Line 401: if (!*lock) return;
PassedCheck(flag) == flag

\* The controller runs a registered callback, which reads the still-alive
\* flag and returns when it is false.  maxFrames bounds the runs that find
\* the flag true.
FrameCallbackEnter(maxFrames) ==
    /\ emupc = "run"
    /\ cbRegistered > 0
    /\ frames < maxFrames \/ ~alive
    /\ frames' = IF frames < maxFrames THEN frames + 1 ELSE frames
    /\ cbRegistered' = cbRegistered - 1
    /\ emupc' = IF PassedCheck(alive) THEN "refreshVl" ELSE "run"
    /\ UNCHANGED <<uiVars, vlVars, logVars, uiCtl, endVars, mutex>>

FreshBuf == [st |-> "fresh", torn |-> FALSE, of |-> 0]

\* CoreController::endVideoLog: the live session stops logging into rec.
EndVideoLog(bs, rec) == IF rec = 0 THEN bs ELSE [bs EXCEPT ![rec].st = "ended"]

\* Lines 369-374: a new chunk with the content of buffer src.
CopyOf(bs, src) == [st |-> "copy", torn |-> bs[src].st = "recording", of |-> src]

\* A handoff that copies the buffer while the live session still logs into it.
HandedOverNoEnd(bs, rec, cur) == Append(bs, CopyOf(bs, cur))

\* Line 368, then the copy: the buffers after the handoff of buffer cur.
HandedOver(bs, rec, cur) ==
    Append(EndVideoLog(bs, rec), CopyOf(EndVideoLog(bs, rec), cur))

\* A refreshVl that does not wait for m_mutex.
RefreshVlNoLock == TRUE

\* refreshVl may enter its critical section.
RefreshVlCanLock == CanLock("emu")

\* refreshVl, all of it under m_mutex: the buffer being recorded (cur) is
\* taken, a new empty one (next) allocated; with a recorded buffer, logging
\* is ended, its content copied, the copy becomes m_currentFrame and newVl
\* is queued; then logging starts into the new buffer.  On a destroyed view
\* the call works on freed memory: it goes on as before (no newVl reaches
\* the dead object), or the thread crashes.
RefreshVl ==
    /\ emupc = "refreshVl"
    /\ RefreshVlCanLock
    /\ lateUse' = IF destroyed THEN lateUse \cup {"refreshVl"} ELSE lateUse
    /\ \/ LET cur == m_nextFrame
              next == Len(bufs) + 1
              fresh == Append(bufs, FreshBuf)
              bs == IF cur # 0 THEN HandedOver(fresh, recording, cur)
                    ELSE EndVideoLog(fresh, recording)
          IN  /\ m_nextFrame' = next
              /\ m_currentFrame' = IF cur # 0 THEN Len(bs) ELSE 0
              /\ pendingNewVl' = IF cur # 0 /\ ~destroyed THEN pendingNewVl + 1
                                 ELSE pendingNewVl
              /\ bufs' = [bs EXCEPT ![next].st = "recording"]
              /\ recording' = next
              /\ emupc' = "register"
       \/ /\ destroyed
          /\ emupc' = "crashed"
          /\ UNCHANGED logVars
    /\ UNCHANGED <<uiVars, vlVars, uiCtl, frames, cbRegistered, alive, destroyed, mutex>>

\* Line 406: the successor callback is registered.
FrameCallbackRegister ==
    /\ emupc = "register"
    /\ cbRegistered' = cbRegistered + 1
    /\ lateUse' = IF ~alive THEN lateUse \cup {"register"} ELSE lateUse
    /\ emupc' = "run"
    /\ UNCHANGED <<uiVars, vlVars, logVars, uiCtl, frames, alive, destroyed, mutex>>

(***************************************************************************)
(* The specifications.  Spec is the whole program with the richer          *)
(* hardware snapshots; SpecRot is the whole program with more frames and   *)
(* fewer snapshots.                                                        *)
(***************************************************************************)
UiNext(hwStates) ==
    \/ GlowTimeout
    \/ \E i \in 1..Len(listItems) : ItemChanged(i)
    \/ \E i \in 0..Len(listItems) : CurrentItemChanged(i)
    \/ \E coord \in Points : SelectLayer(coord)
    \/ \E coord \in Points : DisableLayer(coord)
    \/ ToggleFreeze
    \/ UpdateTilesLock
    \/ \E hw \in hwStates : UpdateTilesGBA(hw)
    \/ UpdateTilesGB
    \/ UpdateTilesFrozen
    \/ InvalidateQueueRun
    \/ NewVl
    \/ Destructor

EmuNext(maxFrames) ==
    \/ FrameCallbackEnter(maxFrames)
    \/ RefreshVl
    \/ FrameCallbackRegister

Next == UiNext(HwStates(MaxObj, MaxBg, MaxPrio)) \/ EmuNext(MaxFrames)
Spec == Init /\ [][Next]_vars

NextRot == UiNext(HwStates(MaxObjRot, MaxBgRot, MaxPrioRot)) \/ EmuNext(MaxFramesRot)
SpecRot == Init /\ [][NextRot]_vars

(***************************************************************************)
(* Teardown and the frame callback.                                        *)
(***************************************************************************)
\* C1: a frame callback that runs or continues after ~FrameView has cleared
\* the still-alive flag is a no-op: it neither calls refreshVl on the view
\* nor registers a successor.
C1_LateCallbackIsNoOp == lateUse = {}

(***************************************************************************)
(* The replay session and the rotating logs.                               *)
(***************************************************************************)
\* C2: from the reset to the end of runFrame a replay holds m_mutex, no
\* rotation takes place (the rotating buffers are as they were at the reset)
\* and the session and the log it reads are the same and unmodified.
C2_ReplayNotInterleaved ==
    uipc = "replay" =>
        /\ mutex.owner = "ui"
        /\ m_vl # 0
        /\ sessions[m_vl].st = "live"
        /\ runRead = ReadNow
        /\ runRead.log # recording

\* A replay is in flight while the emulation thread's callback, with a
\* recorded buffer to hand over, waits to enter refreshVl.
C2_Witness ==
    /\ uipc = "replay"
    /\ emupc = "refreshVl"
    /\ m_nextFrame # 0
    /\ recording = m_nextFrame

LiveSessions == {i \in 1..Len(sessions) : sessions[i].st = "live"}

\* C3: at most one session is initialised and not yet deinitialised, it is
\* the one m_vl names, none is left after teardown, and no session is
\* deinitialised twice.
C3_OneLiveSession ==
    /\ Cardinality(LiveSessions) <= 1
    /\ \A i \in LiveSessions : i = m_vl /\ ~destroyed
    /\ \A i \in 1..Len(sessions) :
          /\ sessions[i].deinits <= 1
          /\ sessions[i].st = "dead" <=> sessions[i].deinits = 1
          /\ (i # m_vl \/ destroyed) => sessions[i].st = "dead"

\* newVl has replaced a session and teardown has deinitialised the last one.
C3_Witness ==
    /\ destroyed
    /\ Len(sessions) = 2
    /\ m_vl = 2

\* C4: the log loaded into the live replay session is a copy of a buffer
\* whose recording had ended when it was copied, and it is neither
\* m_nextFrame nor the buffer the live session records into.
C4_LoadedLogComplete ==
    \A i \in LiveSessions :
        LET log == sessions[i].log
        IN  /\ log \in 1..Len(bufs)
            /\ bufs[log].st = "copy"
            /\ ~bufs[log].torn
            /\ bufs[bufs[log].of].st = "ended"
            /\ log # m_nextFrame
            /\ log # recording

\* A session was loaded by a delayed newVl: two rotations had handed over a
\* buffer before it ran, and the second invocation is still queued.
C4_Witness ==
    /\ LiveSessions = {1}
    /\ pendingNewVl = 1
    /\ sessions[1].log = m_currentFrame
    /\ recording = m_nextFrame

(***************************************************************************)
(* The toggle, select and disable operations.                              *)
(***************************************************************************)
ListEditStep ==
    \/ \E i \in 1..Len(listItems) : ItemChanged(i)
    \/ \E i \in 0..Len(listItems) : CurrentItemChanged(i)

PointEditStep == \E coord \in Points : SelectLayer(coord) \/ DisableLayer(coord)

\* The step resets the session and injects from the queue it leaves.
StartsReplay ==
    /\ uipc' = "replay"
    /\ vlPhase' = "injected"
    /\ vlRender' = Inject(platform, vlRender, m_queue', m_active')
    /\ UNCHANGED <<m_vl, sessions>>

\* The step runs the one frame of the replay in flight and ends the handler.
EndsReplay ==
    /\ vlPhase = "injected"
    /\ uipc' = "idle"
    /\ vlPhase' = "ran"
    /\ m_framebuffer' = "drawn"
    /\ UNCHANGED <<m_vl, sessions, vlRender>>

ReplayInFlight ==
    /\ (uipc = "replay" /\ uipc' = "replay") => UNCHANGED vlVars
    /\ (uipc = "replay" /\ uipc' # "replay") => EndsReplay

\* C5, as claimed: with a session loaded, every list check-state change, list
\* selection change, selectLayer and disableLayer resets the session, injects
\* and runs exactly one frame as part of the operation.
C5_EveryEditReplays ==
    [][/\ (m_vl # 0 /\ (ListEditStep \/ PointEditStep)) => StartsReplay
       /\ ReplayInFlight]_vars

\* C5, amended: with a session loaded, a list check-state change and a list
\* selection change reset the session, inject and run exactly one frame as
\* part of the operation; selectLayer and disableLayer touch neither the
\* session nor the framebuffer and start no replay.
C5_ListEditsReplay ==
    [][/\ (m_vl # 0 /\ ListEditStep) => StartsReplay
       /\ (m_vl # 0 /\ PointEditStep) => UNCHANGED <<vlVars, uiCtl, mutex>>
       /\ ReplayInFlight]_vars

\* The replay of a check-state change is in flight.
C5_Witness ==
    /\ uipc = "replay"
    /\ curOp = "itemChanged"
    /\ vlPhase = "injected"

QueueIds(queue) == {queue[i].id : i \in 1..Len(queue)}

\* C6: every layer of the queue is enabled exactly when its id is not in
\* m_disabled.
C6_EnabledMatchesDisabled ==
    \A i \in 1..Len(m_queue) : m_queue[i].enabled <=> m_queue[i].id \notin m_disabled

\* A plane disabled while it led the queue is disabled in a rebuilt queue in
\* which a sprite precedes it, and a disabled id outlives its layer.
C6_Witness ==
    /\ Len(m_queue) = 3
    /\ m_queue[1].id = SpriteId(0)
    /\ m_queue[1].enabled
    /\ m_queue[2].id = BackgroundId(0)
    /\ ~m_queue[2].enabled
    /\ BackdropId \in m_disabled

\* C7: no two layers of the queue have the same LayerId.
C7_UniqueIds ==
    \A i, j \in 1..Len(m_queue) : m_queue[i].id = m_queue[j].id => i = j

\* The queue holds a plane of tier 0, a sprite of tier 1 and the backdrop.
C7_Witness ==
    /\ Len(m_queue) = 3
    /\ m_queue[1].id = BackgroundId(0)
    /\ m_queue[2].id = SpriteId(0)

BackdropLast(queue) ==
    /\ Len(queue) >= 1
    /\ queue[Len(queue)].id = BackdropId
    /\ ~queue[Len(queue)].repeats
    /\ \A i \in 1..(Len(queue) - 1) : queue[i].id.type # "BACKDROP"

GBAPassStep == \E hw \in HwStates(MaxObj, MaxBg, MaxPrio) : UpdateTilesGBA(hw)

\* C8, as claimed: after every pass not skipped by freeze, of either
\* platform, the queue holds exactly one backdrop, last and not repeating.
C8_BackdropLastBoth ==
    [][(GBAPassStep \/ UpdateTilesGB) => BackdropLast(m_queue')]_vars

\* C8, amended: after every updateTilesGBA not skipped by freeze the queue
\* holds exactly one backdrop, last and not repeating; updateTilesGB leaves
\* the queue empty, without a backdrop.
C8_BackdropLastGBA ==
    /\ [](platform = "GBA" => (m_queue = <<>> \/ BackdropLast(m_queue)))
    /\ [](platform = "GB" => m_queue = <<>>)
    /\ [][/\ GBAPassStep => BackdropLast(m_queue')
          /\ UpdateTilesGB => m_queue' = <<>>]_vars

\* A pass of updateTilesGBA has built a queue of three layers and its
\* replay is in flight.
C8_Witness ==
    /\ platform = "GBA"
    /\ curOp = "updateTiles"
    /\ Len(m_queue) = 3

\* C9, as claimed: once a pass and the list rebuild after it are done,
\* m_active is none or the id of a layer of the queue.
C9_ActiveInQueue ==
    uipc = "idle" => (m_active = NoneId \/ m_active \in QueueIds(m_queue))

\* C9, amended: m_active changes only in selectLayer and in the
\* currentItemChanged handler; a pass and the list rebuild leave it as it
\* is, also when its layer is gone from the rebuilt queue.
C9_ActiveKept ==
    [][m_active' # m_active =>
          \/ \E coord \in Points : SelectLayer(coord)
          \/ \E i \in 0..Len(listItems) : CurrentItemChanged(i)]_vars

\* The active layer is gone from the rebuilt queue and still active.
C9_Witness ==
    /\ uipc = "idle"
    /\ m_queue # <<>>
    /\ m_active = SpriteId(0)
    /\ m_active \notin QueueIds(m_queue)
    /\ \A i \in 1..Len(listItems) : ~listItems[i].selected

\* What selectLayer(coord) does to m_active and the glow counter.
PointSelectPost(coord) ==
    LET k == lookupLayer(m_queue, m_disabled, coord)
    IN  IF k = 0
        THEN UNCHANGED <<m_active, m_glowFrame>>
        ELSE /\ m_active' = IF m_queue[k].id = m_active THEN NoneId ELSE m_queue[k].id
             /\ m_glowFrame' = 0

RowId(i) == m_queue[listItems[i].data + 1].id

\* C10, as claimed: a select of layer L by point or by list row makes L
\* active when it was not, clears m_active when it was, and resets the glow
\* counter on a new selection; a point on no layer changes neither.
C10_SelectToggles ==
    [][/\ \A coord \in Points : SelectLayer(coord) => PointSelectPost(coord)
       /\ \A i \in 1..Len(listItems) : CurrentItemChanged(i) =>
             /\ m_active' = IF RowId(i) = m_active THEN NoneId ELSE RowId(i)
             /\ RowId(i) # m_active => m_glowFrame' = 0]_vars

\* C10, amended: selectLayer makes the layer under the point active when it
\* was not, clears m_active when it was, and sets the glow counter to zero;
\* a point on no layer changes neither.  The currentItemChanged handler
\* makes the row's layer active whether or not it was (none without a row)
\* and leaves the glow counter as it is.
C10_SelectByPointToggles ==
    [][/\ \A coord \in Points : SelectLayer(coord) => PointSelectPost(coord)
       /\ \A i \in 0..Len(listItems) : CurrentItemChanged(i) =>
             /\ m_active' = IF i = 0 THEN NoneId ELSE RowId(i)
             /\ m_glowFrame' = m_glowFrame]_vars

\* A list selection is in flight that made a layer active and left the glow
\* counter at one.
C10_Witness ==
    /\ curOp = "currentItemChanged"
    /\ m_active # NoneId
    /\ m_glowFrame = 1

(***************************************************************************)
(* The state handed to the replay renderer by an injection.                *)
(***************************************************************************)
\* injectGBA has run on the session and runFrame has not yet.
InjectedGBA == platform = "GBA" /\ vlPhase = "injected"

HighlightFlags ==
    {SpriteId(i) : i \in vlRender.hlObj} \cup {BackgroundId(b) : b \in vlRender.hlBg}

Entities ==
    {SpriteId(i) : i \in 0..(NumObj - 1)} \cup {BackgroundId(b) : b \in 0..(NumBg - 1)}

\* C11, as claimed: after each injection the highlight flag of a sprite or
\* background entity is set exactly when that entity is the active layer.
C11_HighlightIffActive ==
    InjectedGBA => HighlightFlags = {e \in Entities : e = m_active}

\* C11, amended: after each injection the highlight flag of a sprite or
\* background entity is set exactly when that entity is the active layer and
\* a layer of the queue; at most one flag is set, and no flag of an earlier
\* run persists.
C11_HighlightIffActiveInQueue ==
    InjectedGBA =>
        /\ HighlightFlags = {e \in Entities : e = m_active /\ e \in QueueIds(m_queue)}
        /\ Cardinality(HighlightFlags) <= 1

\* An injection has set the flag of the active sprite 0.
C11_Witness ==
    /\ InjectedGBA
    /\ m_active = SpriteId(0)
    /\ vlRender.hlObj = {0}
    /\ vlRender.hlBg = {}

\* What disableLayer(coord) leaves of the queue and of m_disabled.
PointDisablePost(coord) ==
    LET k == lookupLayer(m_queue, m_disabled, coord)
    IN  /\ k = 0 => UNCHANGED <<m_queue, m_disabled>>
        /\ k # 0 => ~m_queue'[k].enabled /\ m_queue[k].id \in m_disabled'
        /\ Len(m_queue') = Len(m_queue)
        /\ \A i \in 1..Len(m_queue) :
              /\ m_queue'[i].id = m_queue[i].id
              /\ ~m_queue[i].enabled => ~m_queue'[i].enabled
        /\ m_disabled \subseteq m_disabled'

\* C12: disableLayer(point) leaves the layer its lookup finds disabled and
\* its id in m_disabled, enables no layer, removes no id from m_disabled,
\* and changes neither the queue nor m_disabled when the lookup finds none.
C12_DisableNeverEnables ==
    [][\A coord \in Points : DisableLayer(coord) => PointDisablePost(coord)]_vars

\* disableLayer has disabled the sprite under the point while a layer
\* disabled earlier stays disabled; the list row still shows the check mark.
C12_Witness ==
    /\ Len(m_queue) = 3
    /\ Len(listItems) = 3
    /\ m_queue[1].id = SpriteId(0)
    /\ ~m_queue[1].enabled
    /\ listItems[1].checked
    /\ ~m_queue[2].enabled
    /\ {SpriteId(0), BackgroundId(0)} \subseteq m_disabled

(***************************************************************************)
(* The toggle round trip of a list row.                                    *)
(***************************************************************************)
\* The suppression directives of a renderer state: the plane enable bits and
\* the attribute-memory injections.
Suppression(r) == [bgEnable |-> r.bgEnable, oamIssued |-> r.oamIssued]

\* The queue, m_disabled and the directives of the next injection, as they
\* are now.
ToggleView(queue, disabled, r) ==
    [queue |-> queue, disabled |-> disabled,
     directives |-> Suppression(Inject(platform, r, queue, m_active))]

\* The same after the itemChanged handler has run twice for row i, first
\* for the check mark taken away and then for the check mark set again: each
\* run changes the layer and m_disabled and injects from the queue it leaves
\* (lines 47-54, 290-301).
AfterRoundTrip(i) ==
    LET idx == listItems[i].data + 1
        id == m_queue[idx].id
        q1 == ToggledQueue(m_queue, idx, FALSE)
        d1 == ToggledDisabled(m_disabled, id, FALSE)
        r1 == Inject(platform, vlRender, q1, m_active)
        q2 == ToggledQueue(q1, idx, TRUE)
        d2 == ToggledDisabled(d1, id, TRUE)
        r2 == Inject(platform, r1, q2, m_active)
    IN  ToggleView(q2, d2, r2)

\* The operator can take the check mark of row i away and disable a layer
\* by it: the row is checked and its layer enabled, a session is loaded.
CanToggleOff(i) ==
    /\ UiIdle
    /\ m_vl # 0
    /\ listItems[i].checked
    /\ m_queue[listItems[i].data + 1].enabled

\* C13: for every enabled layer of the queue, toggling it to disabled and
\* back to enabled by its list row, with the same session and no pass in
\* between, restores the layer's enabled flag, m_disabled and the
\* suppression directives of the next injection.
C13_ToggleRoundTrip ==
    \A i \in 1..Len(listItems) :
        CanToggleOff(i) =>
            /\ AfterRoundTrip(i) = ToggleView(m_queue, m_disabled, vlRender)
            /\ ToggleView(ToggledQueue(m_queue, listItems[i].data + 1, FALSE),
                          ToggledDisabled(m_disabled, m_queue[listItems[i].data + 1].id, FALSE),
                          vlRender)
               # ToggleView(m_queue, m_disabled, vlRender)

\* The replay of a re-enabling check-state change is in flight; every layer
\* of the queue is enabled again, while the id of a sprite that has left the
\* queue stays disabled.
C13_Witness ==
    /\ uipc = "replay"
    /\ curOp = "itemChanged"
    /\ platform = "GBA"
    /\ Len(m_queue) = 2
    /\ m_queue[1].id = BackgroundId(0)
    /\ \A k \in 1..2 : m_queue[k].enabled
    /\ m_disabled = {SpriteId(0)}
    /\ vlRender.oamIssued = {}
    /\ \A b \in 0..(NumBg - 1) : vlRender.bgEnable[b]

(***************************************************************************)
(* The replay core before the first log is delivered.                      *)
(***************************************************************************)
\* Lines 326-332: the image the composite view shows is made from m_rendered
\* (the live core's pixels) while m_framebuffer is null, else from
\* m_framebuffer.
CompositeSource == IF m_framebuffer = "null" THEN "m_rendered" ELSE "m_framebuffer"

\* No rotation has handed a recorded log over yet.
NoLogDelivered == m_currentFrame = 0

\* C14: as long as no rotation has delivered a log, no session exists, no
\* re-render request resets, injects or runs a frame, and the composite
\* shown is the raw rendered image.
C14_EmptyReplayCore ==
    NoLogDelivered =>
        /\ m_vl = 0
        /\ sessions = <<>>
        /\ pendingNewVl = 0
        /\ vlPhase = "none"
        /\ vlRender = FreshRender
        /\ uipc # "replay"
        /\ runRead = NoRead
        /\ CompositeSource = "m_rendered"

\* A pass has requested a re-render (the list shows its three layers) after
\* a first rotation that had no recorded log to deliver.
C14_Witness ==
    /\ NoLogDelivered
    /\ frames >= 1
    /\ recording # 0
    /\ Len(m_queue) = 3
    /\ Len(listItems) = 3

(***************************************************************************)
(* The hit test.                                                           *)
(***************************************************************************)
\* The positions of the layers a point hits: enabled, not in m_disabled,
\* and the point in the translated, wrap-expanded mask.
HitPositions(coord) == {i \in 1..Len(m_queue) : LayerHit(m_queue[i], m_disabled, coord)}

\* C15: lookupLayer returns the hit layer of the smallest queue position,
\* none exactly when the point hits no layer, and never a disabled layer.
C15_LookupFirstHit ==
    \A coord \in Points :
        LET k == lookupLayer(m_queue, m_disabled, coord)
        IN  /\ k = 0 <=> HitPositions(coord) = {}
            /\ k # 0 =>
                  /\ k \in HitPositions(coord)
                  /\ \A j \in HitPositions(coord) : k <= j
                  /\ m_queue[k].enabled
                  /\ m_queue[k].id \notin m_disabled

\* Two layers are hit at (0, 0), one point hits none, and selectLayer has
\* made the first of the two active (no list row is selected yet).
C15_Witness ==
    /\ HitPositions(<<0, 0>>) = {1, 2}
    /\ HitPositions(<<1, 0>>) = {}
    /\ m_active = m_queue[1].id
    /\ \A i \in 1..Len(listItems) : ~listItems[i].selected
    /\ listCurrent = 0

(***************************************************************************)
(* The hit test of a repeating layer.  SpecHit starts after a pass that    *)
(* found one plane, of any size from the viewport's up, with a full mask   *)
(* or a one-pixel mask and any scroll offset, and lets the operator click. *)
(***************************************************************************)
ViewW == Cardinality({p[1] : p \in Points})
ViewH == Cardinality({p[2] : p \in Points})

\* The images compositeMap may return: without alpha (full mask) or with
\* alpha and one opaque pixel.
HitImages ==
    UNION {{[w |-> w, h |-> h, alpha |-> FALSE, opaque |-> Rect(w, h)]}
           \cup {[w |-> w, h |-> h, alpha |-> TRUE, opaque |-> {q}] : q \in Rect(w, h)} :
           w \in ViewW..HitMaxW, h \in ViewH..HitMaxH}

\* Lines 192-207 for plane 0 with image img and offset loc, then the backdrop.
HitQueues ==
    {<<MkLayer(BackgroundId(0), TRUE, img, BuildMask(img), loc, TRUE), BackdropLayer({})>> :
        img \in HitImages, loc \in (-HitMaxOfsX..0) \X (-HitMaxOfsY..0)}

InitHit ==
    /\ platform = "GBA"
    /\ freeze = FALSE
    /\ m_queue \in HitQueues
    /\ m_disabled = {}
    /\ m_active = NoneId
    /\ m_glowFrame = 0
    /\ glowTimer = FALSE
    /\ listItems = RebuiltList(m_queue, NoneId)
    /\ listCurrent = 0
    /\ m_vl = 0
    /\ sessions = <<>>
    /\ vlPhase = "none"
    /\ vlRender = FreshRender
    /\ m_framebuffer = "null"
    /\ bufs = <<>>
    /\ m_currentFrame = 0
    /\ m_nextFrame = 0
    /\ recording = 0
    /\ pendingNewVl = 0
    /\ mutex = FreeMutex
    /\ uipc = "idle"
    /\ curOp = "none"
    /\ runRead = NoRead
    /\ emupc = "run"
    /\ frames = 0
    /\ cbRegistered = 1
    /\ alive = TRUE
    /\ destroyed = FALSE
    /\ lateUse = {}

NextHit ==
    \/ \E coord \in Points : SelectLayer(coord)
    \/ \E coord \in Points : DisableLayer(coord)

SpecHit == InitHit /\ [][NextHit]_vars

\* The pixel of the base mask that lies under point p of the viewport.
BasePixel(layer, p) ==
    <<(p[1] - layer.location[1]) % layer.w, (p[2] - layer.location[2]) % layer.h>>

\* C16: for a repeating layer at least as large as the viewport, with its
\* offset in the scroll range, the hit test at a viewport point answers as
\* the base mask does at the point reduced modulo the layer's size.
C16_WrapHitTest ==
    \A i \in 1..Len(m_queue) : \A p \in Points :
        (m_queue[i].repeats /\ m_queue[i].w >= ViewW /\ m_queue[i].h >= ViewH) =>
            (p \in LayerRegion(m_queue[i]) <=> BasePixel(m_queue[i], p) \in m_queue[i].mask)

\* With offset (-5, 0) and width 4 the only opaque pixel is (2, 0); the
\* click at (1, 0), in the second copy of the mask, has selected the plane.
C16_Witness ==
    /\ m_queue[1].location = <<-5, 0>>
    /\ m_queue[1].w = 4
    /\ m_queue[1].mask = {<<2, 0>>}
    /\ m_active = BackgroundId(0)

\* C17: after each injection the plane enable bit of every background layer
\* of the queue equals the layer's enabled flag, and the attribute-memory
\* injection for sprite i is issued exactly when sprite i is a disabled
\* layer of the queue.
C17_InjectionMatchesQueue ==
    InjectedGBA =>
        /\ \A k \in 1..Len(m_queue) :
              m_queue[k].id.type = "BACKGROUND" =>
                  vlRender.bgEnable[m_queue[k].id.index] = m_queue[k].enabled
        /\ vlRender.oamIssued =
              {i \in 0..(NumObj - 1) :
                  \E k \in 1..Len(m_queue) :
                      m_queue[k].id = SpriteId(i) /\ ~m_queue[k].enabled}

\* Injected from the queue [S0 enabled, B0 disabled, Backdrop]: plane 0 is
\* off and no injection touches sprite 0.
C17_Witness ==
    /\ InjectedGBA
    /\ Len(m_queue) = 3
    /\ m_queue[1].id = SpriteId(0)
    /\ m_queue[1].enabled
    /\ m_queue[2].id = BackgroundId(0)
    /\ ~m_queue[2].enabled
    /\ ~vlRender.bgEnable[0]
    /\ vlRender.oamIssued = {}

(***************************************************************************)
(* The order of the queue.  SpecOrder runs decomposition passes over       *)
(* snapshots with two sprites and two planes in two tiers.                 *)
(***************************************************************************)
InitOrder == Init /\ platform = "GBA"

NextOrder ==
    \/ UpdateTilesLock
    \/ \E hw \in HwStates(OrdMaxObj, OrdMaxBg, OrdMaxPrio) : UpdateTilesGBA(hw)
    \/ ToggleFreeze
    \/ UpdateTilesFrozen

SpecOrder == InitOrder /\ [][NextOrder]_vars

\* The priority tier the snapshot gives the entity of a layer.
TierOf(hw, id) ==
    IF id.type = "SPRITE" THEN ObjPriority(hw, id.index) ELSE BgPriority(hw, id.index)

\* Layer a is to come before layer b.
ComesBefore(hw, a, b) ==
    \/ TierOf(hw, a) < TierOf(hw, b)
    \/ /\ TierOf(hw, a) = TierOf(hw, b)
       /\ \/ a.type = "SPRITE" /\ b.type = "BACKGROUND"
          \/ a.type = b.type /\ a.index < b.index

QueueOrdered(hw, queue) ==
    /\ queue # <<>>
    /\ queue[Len(queue)].id = BackdropId
    /\ \A i \in 1..(Len(queue) - 1) : queue[i].id.type \in {"SPRITE", "BACKGROUND"}
    /\ \A i, j \in 1..(Len(queue) - 1) :
          ComesBefore(hw, queue[i].id, queue[j].id) => i < j

\* C18: in the queue a pass builds, a layer of a lower tier precedes one
\* of a higher tier, within a tier a sprite precedes a background, within
\* tier and kind the smaller index comes first, and the backdrop is last.
C18_QueueOrder ==
    [][\A hw \in HwStates(OrdMaxObj, OrdMaxBg, OrdMaxPrio) :
          UpdateTilesGBA(hw) => QueueOrdered(hw, m_queue')]_vars

\* A pass has built the queue of sprites 0 and 1 and plane 1 in tier 0 and
\* plane 0 in tier 1.
C18_Witness ==
    /\ Len(m_queue) = 5
    /\ [k \in 1..5 |-> m_queue[k].id] =
          <<SpriteId(0), SpriteId(1), BackgroundId(1), BackgroundId(0), BackdropId>>

(***************************************************************************)
(* Progress.  SpecLive is SpecRot with the scheduling the threads have: a  *)
(* handler that has started runs on (the replay's runFrame, the pass once  *)
(* its interrupter returns, the callback's registration), and a thread     *)
(* that waits for m_mutex gets it once it is free often enough.            *)
(***************************************************************************)
SpecLive ==
    /\ Init
    /\ [][NextRot]_vars
    /\ WF_vars(InvalidateQueueRun)
    /\ WF_vars(\E hw \in HwStates(MaxObjRot, MaxBgRot, MaxPrioRot) : UpdateTilesGBA(hw))
    /\ WF_vars(FrameCallbackRegister)
    /\ SF_vars(RefreshVl)

SpecChain ==
    /\ SpecLive
    /\ WF_vars(FrameCallbackEnter(MaxFramesRot))

\* The callbacks of the view: registered with the controller, or running.
CallbackChain == cbRegistered + (IF CallbackInterrupting THEN 1 ELSE 0)

\* A registered callback starts to run: with the flag true it goes on to
\* refreshVl, with the flag false it returns and touches nothing.
CallbackRunStep ==
    cbRegistered' < cbRegistered =>
        /\ cbRegistered' = cbRegistered - 1
        /\ IF alive THEN emupc' = "refreshVl"
           ELSE emupc' = "run" /\ UNCHANGED <<logVars, lateUse>>

\* A run on a live view rotates once and then registers one successor.
CallbackRotateStep ==
    /\ (emupc = "refreshVl" /\ ~destroyed) => emupc' \in {"refreshVl", "register"}
    /\ (emupc = "refreshVl" /\ emupc' = "register") =>
          /\ m_nextFrame' # m_nextFrame
          /\ recording' = m_nextFrame'
    /\ (emupc = "register" /\ emupc' # "register") =>
          /\ emupc' = "run"
          /\ cbRegistered' = cbRegistered + 1
    /\ cbRegistered' > cbRegistered => emupc = "register"

\* C20: at most one frame callback of the view is registered or running; a
\* run that finds the flag true rotates once and registers one successor, a
\* run that finds it false registers none; after teardown eventually no
\* callback of the view is registered, and none is registered again.
C20_OneCallbackChain ==
    /\ [](cbRegistered \in {0, 1} /\ CallbackChain <= 1)
    /\ [][CallbackRunStep /\ CallbackRotateStep]_vars
    /\ [][(destroyed /\ CallbackChain = 0) => CallbackChain' = 0]_vars
    /\ destroyed ~> (CallbackChain = 0)

\* After teardown the registered callback has run, found the flag false and
\* left no successor.
C20_Witness ==
    /\ destroyed
    /\ CallbackChain = 0
    /\ emupc = "run"
    /\ lateUse = {}
    /\ frames >= 2

====
